---- MODULE Spec2Model ----
(***************************************************************************)
(* go-supervise: the Supervisor of supervisor/supervisor.go, driven by the *)
(* mockSupervisable task function of its tests.                            *)
(*                                                                         *)
(* A Supervisor owns one cancellable scope (ctx/stop), a list of           *)
(* SupervisableWorker{Func, Count}, a WaitGroup and the runningWorkers     *)
(* counter.  Run launches one goroutine per instance with wg.Go; every     *)
(* goroutine increments the counter, calls the task function in a loop     *)
(* until the scope is cancelled, decrements the counter and is Done.       *)
(*                                                                         *)
(* NewSupervisorWithOptions is modelled step by step on its own (CtorSpec), *)
(* and so is ActorWorker, the adapter that turns an Actor with a mailbox   *)
(* of Envelopes into a task function (ActorSpec); PoolSpec runs several     *)
(* instances of one actor on one mailbox, and LogSpec the two logging      *)
(* functions.                                                              *)
(***************************************************************************)
EXTENDS Integers, Sequences, FiniteSets, Bags, TLC

\* ------------------------------------------------------------------ bounds
\* Run() executions (direct, or the deferred one of Restart) a behaviour may start.
MaxRuns == 2
\* Panics the mock task function of one TaskSpec may raise (and recover).
MaxPanics == 1
\* Wait() calls a behaviour may make.
MaxWaits == 1
\* Options a call of the constructor is given.
MaxOpts == 3
\* Envelopes the sender sends into the actor's mailbox.
MaxSend == 3
\* Calls of the actor's task function (the first and the relaunches).
MaxActorCalls == 2

\* Log emissions a behaviour may make.
MaxLogs == 3

\* make(chan Envelope, 2): the capacity of the mailbox.
MailboxCap == 2

\* ------------------------------------------------------- the configuration
\* WithWorkers(SupervisableWorker{Func, Count}...): the TaskSpecs, in order.
\* Func names the mockSupervisable the task function closes over.
workers == << [Func |-> 1, Count |-> 1], [Func |-> 2, Count |-> 1] >>

Workers == 1..Len(workers)

\* The instances Run launches, in launch order: worker w appears Count times.
RECURSIVE InstancesFrom(_)
InstancesFrom(w) ==
    IF w > Len(workers) THEN << >>
    ELSE [i \in 1..workers[w].Count |-> w] \o InstancesFrom(w + 1)

Instances == InstancesFrom(1)

\* SupervisableWorker{Func: worker, Count: 2}: the instances that run one actor.
PoolCount == 2

\* Sum of the TaskSpec counts.
TotalCount == Len(Instances)

VARIABLES
    ctxCancelled,    \* s.ctx.Err() != nil: the Supervisor's scope is cancelled
    wg,              \* s.wg: the WaitGroup's counter
    runningWorkers,  \* s.runningWorkers
    goroutines,      \* the goroutines wg.Go has started: a bag of [worker, pc]
    calls,           \* the API calls in progress: a bag of [op, k], k the next
                     \* instance a Run is to launch
    nRuns,           \* Run() calls made so far
    nRestarts,       \* Restart() calls made so far
    nWaits,          \* Wait() calls made so far
    shouldPanic,     \* mockSupervisable.shouldPanic, per TaskSpec
    nCalls,          \* mockSupervisable.nCalls
    nPanics,         \* mockSupervisable.nPanics
    \* NewSupervisorWithOptions
    parentDone,      \* the parent scope handed to the constructor is cancelled
    opts,            \* the options handed to the constructor, in order
    optIdx,          \* the option the constructor's loop is to apply next
    newWorkers,      \* supervisor.workers of the Supervisor under construction
    newResult,       \* what the constructor has returned
    \* ActorWorker
    actor,           \* the Actor: which hooks it has and how they behave
    toSend,          \* the envelopes the sender has still to send, in order
    sent,            \* the envelopes the sender has sent, in order
    mailbox,         \* the envelopes buffered in the mailbox channel
    mailboxClosed,   \* the mailbox channel is closed
    ctxDone,         \* the scope handed to the actor's task function is cancelled
    actorPc,         \* where the current call of the task function is
    nActorCalls,     \* calls of the task function so far
    initCalled,      \* Init invocations so far (testActor.initCalled)
    terminateCall,   \* Terminate invocations so far (testActor.terminateCall)
    handleCalls,     \* the arguments of the Handle invocations so far, in order
    thisCall,        \* what the current call has done: Init, Terminate and Handle
                     \* invocations, mailbox reads, log lines, loop entered
    \* logging
    logger,          \* the package variable logger of each of the two packages
    sinkLines,       \* the lines the configured Logger has been handed, in order
    stderrLines,     \* the lines written to os.Stderr, in order
    emitted          \* the log emissions made so far: [pkg, msg, set]

vars == << ctxCancelled, wg, runningWorkers, goroutines, calls, nRuns, nRestarts, nWaits,
           shouldPanic, nCalls, nPanics,
           parentDone, opts, optIdx, newWorkers, newResult,
           actor, toSend, sent, mailbox, mailboxClosed, ctxDone, actorPc, nActorCalls,
           initCalled, terminateCall, handleCalls, thisCall,
           logger, sinkLines, stderrLines, emitted >>

logVars == << logger, sinkLines, stderrLines, emitted >>
ctorVars == << parentDone, opts, optIdx, newWorkers, newResult >>
actorVars == << actor, toSend, sent, mailbox, mailboxClosed, ctxDone, actorPc, nActorCalls,
                initCalled, terminateCall, handleCalls, thisCall >>

supervisorVars == << ctxCancelled, wg, runningWorkers >>
mockVars == << shouldPanic, nCalls, nPanics >>
callVars == << nRuns, nRestarts, nWaits >>
runVars == << supervisorVars, goroutines, calls, callVars, mockVars >>

\* One element of a bag replaced by another.
Replace(bag, old, new) == (bag (-) SetToBag({old})) (+) SetToBag({new})

\* The goroutines whose position is in pcs, counted.
CountAt(pcs) ==
    BagCardinality([r \in {x \in DOMAIN goroutines : x.pc \in pcs} |-> goroutines[r]])

\* The goroutines of worker w whose position is in pcs, counted.
CountOf(w, pcs) ==
    BagCardinality([r \in {x \in DOMAIN goroutines : x.worker = w /\ x.pc \in pcs}
                       |-> goroutines[r]])

\* The calls in progress whose operation is in ops, counted.
CallsIn(ops) ==
    BagCardinality([r \in {x \in DOMAIN calls : x.op \in ops} |-> calls[r]])

\* ------------------------------------------------------------ the counter
\* Mutant: the increment is lost.
incWorkerCountLost(n) == n

\* incWorkerCount: s.runningWorkers++ under the lock.
incWorkerCount(n) == n + 1

\* Mutant: the decrement is lost.
decWorkerCountLost(n) == n

\* decWorkerCount: s.runningWorkers-- under the lock.
decWorkerCount(n) == n - 1

\* CurrentWorkerCount: the counter read under the read lock.
CurrentWorkerCount == runningWorkers

\* ------------------------------------------------------------ the constructor
\* The lists of TaskSpecs a WithWorkers option is given.
SpecLists == { << >>, << workers[1] >>, << workers[2], workers[1] >> }

\* type Option func(*Supervisor) error: WithWorkers(supervisables...), which never
\* fails, or a caller's option that returns an error.
Options ==
    {[kind |-> "WithWorkers", specs |-> l] : l \in SpecLists}
        \cup {[kind |-> "failing", specs |-> << >>]}

OptionLists == UNION {[1..n -> Options] : n \in 0..MaxOpts}

\* Mutant: the option assigns the list instead of appending to it.
WithWorkersOverwrites(ws, supervisables) == supervisables

\* WithWorkers: s.workers = append(s.workers, supervisables...)
WithWorkers(ws, supervisables) == ws \o supervisables

\* Mutant: the scope of the Supervisor is not derived from the parent.
WithCancelDetached(parent) == FALSE

\* context.WithCancel(ctx): the derived scope is cancelled from the start exactly
\* when the parent already is.
WithCancel(parent) == parent

\* The constructor has not returned yet.
Pending ==
    [state |-> "pending", err |-> FALSE, supervisor |-> FALSE,
     workers |-> << >>, cancelled |-> FALSE]

\* for _, opt := range opts: the option is applied and returns nil.
NewApplyOption ==
    /\ newResult.state = "pending"
    /\ optIdx <= Len(opts)
    /\ opts[optIdx].kind = "WithWorkers"
    /\ newWorkers' = WithWorkers(newWorkers, opts[optIdx].specs)
    /\ optIdx' = optIdx + 1
    /\ UNCHANGED << logVars, parentDone, opts, newResult, runVars, actorVars >>

\* The option returns an error: return nil, err.
NewOptionFails ==
    /\ newResult.state = "pending"
    /\ optIdx <= Len(opts)
    /\ opts[optIdx].kind = "failing"
    /\ newResult' = [state |-> "returned", err |-> TRUE, supervisor |-> FALSE,
                     workers |-> << >>, cancelled |-> FALSE]
    /\ UNCHANGED << logVars, parentDone, opts, optIdx, newWorkers, runVars, actorVars >>

\* Every option applied: supervisor.ctx, supervisor.stop = context.WithCancel(ctx);
\* return supervisor, nil.
NewReturn ==
    /\ newResult.state = "pending"
    /\ optIdx > Len(opts)
    /\ newResult' = [state |-> "returned", err |-> FALSE, supervisor |-> TRUE,
                     workers |-> newWorkers, cancelled |-> WithCancel(parentDone)]
    /\ UNCHANGED << logVars, parentDone, opts, optIdx, newWorkers, runVars, actorVars >>

\* The constructor has returned the Supervisor the rest of the model runs:
\* NewSupervisorWithOptions(context.Background(), WithWorkers(workers...)).
CtorDone ==
    /\ parentDone = FALSE
    /\ opts = << [kind |-> "WithWorkers", specs |-> workers] >>
    /\ optIdx = 2
    /\ newWorkers = workers
    /\ newResult = [state |-> "returned", err |-> FALSE, supervisor |-> TRUE,
                    workers |-> workers, cancelled |-> FALSE]

\* ------------------------------------------------------------ the actor
\* Envelope{Control, Payload}; MessageData is the zero value of Control.
Envelopes ==
    { [Control |-> "MessageData", Payload |-> "a"],
      [Control |-> "MessageData", Payload |-> "b"],
      [Control |-> "MessageStop", Payload |-> "nil"],
      [Control |-> "MessageRestart", Payload |-> "a"] }

Scripts == UNION {[1..n -> Envelopes] : n \in 0..MaxSend}

\* The actors: init says whether the actor is an Initialiser and what Init returns,
\* term whether it is a Terminator and whether Terminate closes the mailbox (as
\* testActor's does), panicOnHandle whether Handle panics.
Actors == [init : {"none", "ok", "error"}, term : {"none", "ok", "closes"},
           panicOnHandle : BOOLEAN]

\* A call of the task function that has done nothing yet.
NewCall ==
    [inits |-> 0, terms |-> 0, reads |-> 0, handles |-> 0, logs |-> << >>,
     entered |-> FALSE, closed |-> 0]

\* No actor is run.
ActorIdle ==
    /\ actor = [init |-> "none", term |-> "none", panicOnHandle |-> FALSE]
    /\ toSend = << >>
    /\ sent = << >>
    /\ mailbox = << >>
    /\ mailboxClosed = FALSE
    /\ ctxDone = FALSE
    /\ actorPc = "idle"
    /\ nActorCalls = 0
    /\ initCalled = 0
    /\ terminateCall = 0
    /\ handleCalls = << >>
    /\ thisCall = NewCall

\* testActor.handled: Handle appends the message unless it panics first.
handled == IF actor.panicOnHandle THEN << >> ELSE handleCalls

\* Mutant: the actor is never taken for an Initialiser.
hasInitialiserNever(a) == FALSE

\* initialiser, ok := actor.(Initialiser)
hasInitialiser(a) == a.init # "none"

\* Mutant: the actor is never taken for a Terminator.
hasTerminatorNever(a) == FALSE

\* terminator, ok := actor.(Terminator)
hasTerminator(a) == a.term # "none"

\* Mutant: every envelope ends the loop.
isControlAlways(e) == TRUE

\* Mutant: only MessageStop ends the loop.
isControlStopOnly(e) == e.Control = "MessageStop"

\* case MessageRestart, MessageStop: return
isControl(e) == e.Control \in {"MessageRestart", "MessageStop"}

\* Mutant: the newest envelope is taken first.
ReceiveNewest(mb) == [envelope |-> mb[Len(mb)], rest |-> SubSeq(mb, 1, Len(mb) - 1)]

\* envelope, ok := <-actor.Mailbox(): the oldest buffered envelope.
Receive(mb) == [envelope |-> Head(mb), rest |-> Tail(mb)]

\* The sender: actor.mailbox <- envelope, which blocks while the buffer is full.
\* (A send on a closed channel panics in the sender; the sender of the model
\* stops sending instead.)
ActorSend ==
    /\ toSend # << >>
    /\ Len(mailbox) < MailboxCap
    /\ ~mailboxClosed
    /\ mailbox' = Append(mailbox, Head(toSend))
    /\ toSend' = Tail(toSend)
    /\ sent' = Append(sent, Head(toSend))
    /\ UNCHANGED << logVars, actor, mailboxClosed, ctxDone, actorPc, nActorCalls, initCalled,
                    terminateCall, handleCalls, thisCall, runVars, ctorVars >>

\* cancel() of the scope the task function was given.
ActorCancel ==
    /\ ctxDone' = TRUE
    /\ UNCHANGED << logVars, actor, toSend, sent, mailbox, mailboxClosed, actorPc, nActorCalls,
                    initCalled, terminateCall, handleCalls, thisCall, runVars, ctorVars >>

\* Mutant: the mailbox is drained when the task function is called.
ActorCallDrains ==
    /\ actorPc = "idle"
    /\ nActorCalls' = nActorCalls + 1
    /\ thisCall' = NewCall
    /\ actorPc' = "init"
    /\ mailbox' = << >>
    /\ UNCHANGED << logVars, actor, toSend, sent, mailboxClosed, ctxDone, initCalled,
                    terminateCall, handleCalls, runVars, ctorVars >>

\* The task function is called with a fresh done channel: the first time, or
\* again by the restart loop of its instance.
ActorCall ==
    /\ actorPc = "idle"
    /\ nActorCalls' = nActorCalls + 1
    /\ thisCall' = NewCall
    /\ actorPc' = "init"
    /\ UNCHANGED << logVars, actor, toSend, sent, mailbox, mailboxClosed, ctxDone, initCalled,
                    terminateCall, handleCalls, runVars, ctorVars >>

\* if initialiser, ok := actor.(Initialiser); ok { if err := initialiser.Init(ctx);
\* err != nil { log; return } }, then the loop is entered.
ActorInitialise ==
    /\ actorPc = "init"
    /\ IF hasInitialiser(actor)
       THEN /\ initCalled' = initCalled + 1
            /\ IF actor.init = "error"
               THEN /\ thisCall' = [thisCall EXCEPT !.inits = @ + 1,
                                        !.logs = Append(@, "actor init failed")]
                    /\ actorPc' = "deferred"
               ELSE /\ thisCall' = [thisCall EXCEPT !.inits = @ + 1, !.entered = TRUE]
                    /\ actorPc' = "loop"
       ELSE /\ initCalled' = initCalled
            /\ thisCall' = [thisCall EXCEPT !.entered = TRUE]
            /\ actorPc' = "loop"
    /\ UNCHANGED << logVars, actor, toSend, sent, mailbox, mailboxClosed, ctxDone, nActorCalls,
                    terminateCall, handleCalls, runVars, ctorVars >>

\* case <-ctx.Done(): return
ActorCtxDone ==
    /\ actorPc = "loop"
    /\ ctxDone
    /\ actorPc' = "deferred"
    /\ UNCHANGED << logVars, actor, toSend, sent, mailbox, mailboxClosed, ctxDone, nActorCalls,
                    initCalled, terminateCall, handleCalls, thisCall, runVars, ctorVars >>

\* Mutant: ok is not looked at: the zero Envelope a closed channel yields is taken
\* for a Data envelope and handed to Handle.
ActorMailboxClosedIgnored ==
    /\ actorPc = "loop"
    /\ mailbox = << >>
    /\ mailboxClosed
    /\ handleCalls' = Append(handleCalls, "nil")
    /\ thisCall' = [thisCall EXCEPT !.handles = @ + 1]
    /\ UNCHANGED << logVars, actor, toSend, sent, mailbox, mailboxClosed, ctxDone, actorPc,
                    nActorCalls, initCalled, terminateCall, runVars, ctorVars >>

\* case envelope, ok := <-actor.Mailbox() with ok false: the mailbox is closed and
\* drained: return.
ActorMailboxClosed ==
    /\ actorPc = "loop"
    /\ mailbox = << >>
    /\ mailboxClosed
    /\ actorPc' = "deferred"
    /\ UNCHANGED << logVars, actor, toSend, sent, mailbox, mailboxClosed, ctxDone, nActorCalls,
                    initCalled, terminateCall, handleCalls, thisCall, runVars, ctorVars >>

\* Mutant: a panic of Handle is swallowed per message and the loop goes on.
ActorReceiveSkipsPanic ==
    /\ actorPc = "loop"
    /\ mailbox # << >>
    /\ LET r == Receive(mailbox)
       IN  /\ mailbox' = r.rest
           /\ IF isControl(r.envelope)
              THEN /\ thisCall' = [thisCall EXCEPT !.reads = @ + 1]
                   /\ handleCalls' = handleCalls
                   /\ actorPc' = "deferred"
              ELSE /\ thisCall' = [thisCall EXCEPT !.reads = @ + 1, !.handles = @ + 1]
                   /\ handleCalls' = Append(handleCalls, r.envelope.Payload)
                   /\ actorPc' = "loop"
    /\ UNCHANGED << logVars, actor, toSend, sent, mailboxClosed, ctxDone, nActorCalls, initCalled,
                    terminateCall, runVars, ctorVars >>

\* case envelope, ok := <-actor.Mailbox() with an envelope: a control envelope
\* returns; any other is handed to actor.Handle(ctx, envelope.Payload), on this
\* goroutine, and a panic of Handle unwinds to the deferred function.
ActorReceive ==
    /\ actorPc = "loop"
    /\ mailbox # << >>
    /\ LET r == Receive(mailbox)
       IN  /\ mailbox' = r.rest
           /\ IF isControl(r.envelope)
              THEN /\ thisCall' = [thisCall EXCEPT !.reads = @ + 1]
                   /\ handleCalls' = handleCalls
                   /\ actorPc' = "deferred"
              ELSE /\ thisCall' = [thisCall EXCEPT !.reads = @ + 1, !.handles = @ + 1]
                   /\ handleCalls' = Append(handleCalls, r.envelope.Payload)
                   /\ actorPc' = IF actor.panicOnHandle THEN "panicked" ELSE "loop"
    /\ UNCHANGED << logVars, actor, toSend, sent, mailboxClosed, ctxDone, nActorCalls, initCalled,
                    terminateCall, runVars, ctorVars >>

\* Mutant: Terminate is called without its own recovery: its panic ends the
\* goroutine before close(done).
ActorTerminateUnsafe ==
    /\ actorPc \in {"deferred", "panicked"}
    /\ LET recovered == IF actorPc = "panicked"
                        THEN Append(thisCall.logs, "recovered panic in actor")
                        ELSE thisCall.logs
       IN  IF hasTerminator(actor)
           THEN /\ terminateCall' = terminateCall + 1
                /\ mailboxClosed' = (mailboxClosed \/ actor.term = "closes")
                /\ thisCall' = [thisCall EXCEPT !.terms = @ + 1, !.logs = recovered]
                /\ actorPc' = IF actor.term = "closes" /\ mailboxClosed
                              THEN "crashed" ELSE "closing"
           ELSE /\ terminateCall' = terminateCall
                /\ mailboxClosed' = mailboxClosed
                /\ thisCall' = [thisCall EXCEPT !.logs = recovered]
                /\ actorPc' = "closing"
    /\ UNCHANGED << logVars, actor, toSend, sent, mailbox, ctxDone, nActorCalls, initCalled,
                    handleCalls, runVars, ctorVars >>

\* The deferred function: recover() and log a panic, then safeTerminate(ctx,
\* terminator) if the actor is a Terminator.  A Terminate that closes the mailbox
\* panics when the mailbox is closed already; safeTerminate recovers and logs.
ActorTerminate ==
    /\ actorPc \in {"deferred", "panicked"}
    /\ LET recovered == IF actorPc = "panicked"
                        THEN Append(thisCall.logs, "recovered panic in actor")
                        ELSE thisCall.logs
       IN  IF hasTerminator(actor)
           THEN /\ terminateCall' = terminateCall + 1
                /\ mailboxClosed' = (mailboxClosed \/ actor.term = "closes")
                /\ thisCall' =
                      [thisCall EXCEPT
                         !.terms = @ + 1,
                         !.logs = IF actor.term = "closes" /\ mailboxClosed
                                  THEN Append(recovered,
                                              "recovered panic in actor termination")
                                  ELSE recovered]
           ELSE /\ terminateCall' = terminateCall
                /\ mailboxClosed' = mailboxClosed
                /\ thisCall' = [thisCall EXCEPT !.logs = recovered]
    /\ actorPc' = "closing"
    /\ UNCHANGED << logVars, actor, toSend, sent, mailbox, ctxDone, nActorCalls, initCalled,
                    handleCalls, runVars, ctorVars >>

\* Mutant: the call returns without closing done.
ActorReturnNoClose ==
    /\ actorPc = "closing"
    /\ actorPc' = "returned"
    /\ UNCHANGED << logVars, actor, toSend, sent, mailbox, mailboxClosed, ctxDone, nActorCalls,
                    initCalled, terminateCall, handleCalls, thisCall, runVars, ctorVars >>

\* close(done): the call returns.
ActorReturn ==
    /\ actorPc = "closing"
    /\ actorPc' = "returned"
    /\ thisCall' = [thisCall EXCEPT !.closed = @ + 1]
    /\ UNCHANGED << logVars, actor, toSend, sent, mailbox, mailboxClosed, ctxDone, nActorCalls,
                    initCalled, terminateCall, handleCalls, runVars, ctorVars >>

\* Mutant: the restart loop breaks after the first return, whatever the scope.
ActorLoopCheckBreaks ==
    /\ actorPc = "returned"
    /\ actorPc' = "ended"
    /\ UNCHANGED << logVars, actor, toSend, sent, mailbox, mailboxClosed, ctxDone, nActorCalls,
                    initCalled, terminateCall, handleCalls, thisCall, runVars, ctorVars >>

\* The restart loop of the instance, once done is closed: if s.ctx.Err() != nil
\* { break }, else the task function is called again.  The scope may be cancelled
\* between this check and the call.
ActorLoopCheck ==
    /\ actorPc = "returned"
    /\ IF ctxDone THEN actorPc' = "ended"
       ELSE /\ nActorCalls < MaxActorCalls
            /\ actorPc' = "idle"
    /\ UNCHANGED << logVars, actor, toSend, sent, mailbox, mailboxClosed, ctxDone, nActorCalls,
                    initCalled, terminateCall, handleCalls, thisCall, runVars, ctorVars >>

\* ------------------------------------------------------------ a pool on one actor
\* The instances of one TaskSpec whose Func is ActorWorker(a): each is a restart
\* loop of the Supervisor calling the task function, and all the calls receive
\* from the one channel a.Mailbox() returns.  The actor is the example's
\* printerActor: a Terminator, no Initialiser, a Handle that returns, and nothing
\* closes its mailbox.  An instance is [pc, held, reads, stops]: held is the
\* payload it has received and not yet handed to Handle, reads the envelopes it
\* has received, stops the calls of it that a control envelope ended.
printerActor == [init |-> "none", term |-> "ok", panicOnHandle |-> FALSE]

PoolInstance == [pc |-> "start", held |-> "nil", reads |-> 0, stops |-> 0]

\* The instance enters its restart loop and calls the task function, which goes
\* to its select (no Init: printerActor is no Initialiser).
PoolCall(g) ==
    /\ g.pc = "start"
    /\ goroutines' = Replace(goroutines, g, [g EXCEPT !.pc = "loop"])
    /\ UNCHANGED << logVars, ctorVars, supervisorVars, calls, callVars, mockVars, actorVars >>

\* case <-ctx.Done(): return
PoolCtxDone(g) ==
    /\ g.pc = "loop"
    /\ ctxDone
    /\ goroutines' = Replace(goroutines, g, [g EXCEPT !.pc = "deferred"])
    /\ UNCHANGED << logVars, ctorVars, supervisorVars, calls, callVars, mockVars, actorVars >>

\* Mutant: the receive leaves the envelope in the mailbox for the next receiver.
PoolReceivePeeks(g) ==
    /\ g.pc = "loop"
    /\ mailbox # << >>
    /\ LET r == Receive(mailbox)
       IN  goroutines' = Replace(goroutines, g,
               IF isControl(r.envelope)
               THEN [g EXCEPT !.pc = "deferred", !.reads = @ + 1, !.stops = @ + 1]
               ELSE [g EXCEPT !.pc = "handling", !.reads = @ + 1,
                              !.held = r.envelope.Payload])
    /\ UNCHANGED << logVars, ctorVars, supervisorVars, calls, callVars, mockVars, actorVars >>

\* case envelope, ok := <-actor.Mailbox(): the receive takes the envelope out of
\* the channel; a control envelope returns, a Data envelope is about to be handled.
PoolReceive(g) ==
    /\ g.pc = "loop"
    /\ mailbox # << >>
    /\ LET r == Receive(mailbox)
       IN  /\ mailbox' = r.rest
           /\ goroutines' = Replace(goroutines, g,
                  IF isControl(r.envelope)
                  THEN [g EXCEPT !.pc = "deferred", !.reads = @ + 1, !.stops = @ + 1]
                  ELSE [g EXCEPT !.pc = "handling", !.reads = @ + 1,
                                 !.held = r.envelope.Payload])
    /\ UNCHANGED << logVars, ctorVars, supervisorVars, calls, callVars, mockVars, actor, toSend,
                    sent, mailboxClosed, ctxDone, actorPc, nActorCalls, initCalled,
                    terminateCall, handleCalls, thisCall >>

\* actor.Handle(ctx, envelope.Payload), which returns; back to the select.
PoolHandle(g) ==
    /\ g.pc = "handling"
    /\ handleCalls' = Append(handleCalls, g.held)
    /\ goroutines' = Replace(goroutines, g, [g EXCEPT !.pc = "loop", !.held = "nil"])
    /\ UNCHANGED << logVars, ctorVars, supervisorVars, calls, callVars, mockVars, actor, toSend,
                    sent, mailbox, mailboxClosed, ctxDone, actorPc, nActorCalls, initCalled,
                    terminateCall, thisCall >>

\* The deferred function of the call: safeTerminate, close(done); the call returns.
PoolReturn(g) ==
    /\ g.pc = "deferred"
    /\ terminateCall' = IF hasTerminator(actor) THEN terminateCall + 1 ELSE terminateCall
    /\ goroutines' = Replace(goroutines, g, [g EXCEPT !.pc = "returned"])
    /\ UNCHANGED << logVars, ctorVars, supervisorVars, calls, callVars, mockVars, actor, toSend,
                    sent, mailbox, mailboxClosed, ctxDone, actorPc, nActorCalls, initCalled,
                    handleCalls, thisCall >>

\* if s.ctx.Err() != nil { break }, else the task function is called again.
PoolLoopCheck(g) ==
    /\ g.pc = "returned"
    /\ goroutines' = Replace(goroutines, g, [g EXCEPT !.pc = IF ctxDone THEN "done" ELSE "loop"])
    /\ UNCHANGED << logVars, ctorVars, supervisorVars, calls, callVars, mockVars, actorVars >>

PoolStep(g) ==
    \/ PoolCall(g)
    \/ PoolCtxDone(g)
    \/ PoolReceive(g)
    \/ PoolHandle(g)
    \/ PoolReturn(g)
    \/ PoolLoopCheck(g)

\* ------------------------------------------------------------ logging
\* The two packages that carry a logger variable and a logging function.
Packages == {"logger", "supervisor"}

\* What WithLogger can be handed: nil or a Logger.
Loggers == {"nil", "sink"}

\* The messages the core emits (part_006:219, 229, 260).
Messages == {"actor init failed", "recovered panic in actor",
             "recovered panic in actor termination"}

\* No logger has been set and nothing has been logged.
LogIdle ==
    /\ logger = [p \in Packages |-> "nil"]
    /\ sinkLines = << >>
    /\ stderrLines = << >>
    /\ emitted = << >>

\* logger.Log(msg): if logger == nil { fmt.Fprintln(os.Stderr, msg) }, and nothing
\* otherwise.  The lines it hands to the Logger and those it writes to os.Stderr.
Log(l, msg) ==
    [sink |-> << >>, stderr |-> IF l = "nil" THEN << msg >> ELSE << >>]

\* log(msg) of package supervisor, the one ActorWorker calls: if logger != nil
\* { logger.Println(msg) }, and nothing otherwise.
log(l, msg) ==
    [sink |-> IF l # "nil" THEN << msg >> ELSE << >>, stderr |-> << >>]

\* WithLogger(l) of package p: logger = l.
WithLogger(p, l) ==
    /\ logger[p] # l
    /\ logger' = [logger EXCEPT ![p] = l]
    /\ UNCHANGED << sinkLines, stderrLines, emitted, ctorVars, actorVars, runVars >>

\* One emission: the function of package p is called with msg.
Emit(p, msg) ==
    /\ Len(emitted) < MaxLogs
    /\ LET out == IF p = "logger" THEN Log(logger[p], msg) ELSE log(logger[p], msg)
       IN  /\ sinkLines' = sinkLines \o out.sink
           /\ stderrLines' = stderrLines \o out.stderr
    /\ emitted' = Append(emitted, [pkg |-> p, msg |-> msg, set |-> logger[p] # "nil"])
    /\ UNCHANGED << logger, ctorVars, actorVars, runVars >>

\* A call of logger.Log.
LogCall == \E msg \in Messages : Emit("logger", msg)

\* A call of log of package supervisor.
logCall == \E msg \in Messages : Emit("supervisor", msg)

\* A call of WithLogger of either package.
SetLogger == \E p \in Packages : \E l \in Loggers : WithLogger(p, l)

\* ------------------------------------------------------------ construction
\* NewSupervisorWithOptions(ctx, WithWorkers(...)): a fresh WaitGroup, counter 0,
\* a scope derived from the parent and not cancelled; generateSupervisable resets
\* nCalls and nPanics of each mock, whose shouldPanic the test chooses.
Init ==
    /\ ctxCancelled = FALSE
    /\ wg = 0
    /\ runningWorkers = 0
    /\ goroutines = EmptyBag
    /\ calls = EmptyBag
    /\ nRuns = 0
    /\ nRestarts = 0
    /\ nWaits = 0
    /\ shouldPanic \in [Workers -> BOOLEAN]
    /\ nCalls = [w \in Workers |-> 0]
    /\ nPanics = [w \in Workers |-> 0]
    /\ CtorDone
    /\ ActorIdle
    /\ LogIdle

\* ------------------------------------------------------------ the WaitGroup
\* Mutant: the instance is launched without being registered.
wgAddLost(n) == n

\* wg.Go(f): Add(1) in the caller, before the goroutine exists.
wgAdd(n) == n + 1

\* Mutant: the goroutine never reports Done.
wgDoneLost(n) == n

\* The deferred Done of the goroutine wg.Go started.
wgDone(n) == n - 1

\* Mutant: Wait does not look at the counter.
wgWaitReturnsAlways(n) == TRUE

\* wg.Wait() returns only when the counter is zero.
wgWaitReturns(n) == n = 0

\* ------------------------------------------------------------ Run
\* The loop of Run: one wg.Go per instance, in order; Run returns after the last.
RunLaunch(r) ==
    /\ wg' = wgAdd(wg)
    /\ goroutines' = goroutines (+) SetToBag({[worker |-> Instances[r.k], pc |-> "start"]})
    /\ calls' = IF r.k = TotalCount THEN calls (-) SetToBag({r})
                ELSE Replace(calls, r, [r EXCEPT !.k = @ + 1])

\* A Run() call begins: the caller enters the launch loop.
Run ==
    /\ nRuns + nRestarts < MaxRuns
    /\ nRuns' = nRuns + 1
    /\ calls' = calls (+) SetToBag({[op |-> "Run", k |-> 1]})
    /\ UNCHANGED << logVars, ctorVars, actorVars, supervisorVars, goroutines, nRestarts, nWaits, mockVars >>

\* The next wg.Go of a Run() call in progress.
RunGo ==
    \E r \in BagToSet(calls) :
        /\ r.op = "Run"
        /\ RunLaunch(r)
        /\ UNCHANGED << logVars, ctorVars, actorVars, ctxCancelled, runningWorkers, callVars, mockVars >>

\* ------------------------------------------------------------ Stop
\* Mutant: a second cancellation revives the scope.
cancelToggle(cancelled) == ~cancelled

\* s.stop(): cancels the scope; cancelling again changes nothing.
cancel(cancelled) == TRUE

Stop ==
    /\ ctxCancelled' = cancel(ctxCancelled)
    /\ UNCHANGED << logVars, ctorVars, actorVars, wg, runningWorkers, goroutines, calls, callVars, mockVars >>

\* The caller cancels the parent scope it handed to the constructor: s.ctx, made by
\* context.WithCancel(ctx), is cancelled with it.
ParentCancel ==
    /\ ~parentDone
    /\ parentDone' = TRUE
    /\ ctxCancelled' = (ctxCancelled \/ WithCancel(TRUE))
    /\ UNCHANGED << logVars, opts, optIdx, newWorkers, newResult, actorVars, wg, runningWorkers,
                    goroutines, calls, callVars, mockVars >>

\* ------------------------------------------------------------ Restart
\* The scope the deferred Run of Restart hands to the task functions: s.ctx, which
\* only the constructor assigns, so it is the scope Stop has just cancelled.
RestartScope(cancelled) == cancelled

\* Restart(): s.Stop(), then block in s.wg.Wait().
Restart ==
    /\ nRuns + nRestarts < MaxRuns
    /\ nRestarts' = nRestarts + 1
    /\ ctxCancelled' = cancel(ctxCancelled)
    /\ calls' = calls (+) SetToBag({[op |-> "RestartWait", k |-> 0]})
    /\ UNCHANGED << logVars, ctorVars, actorVars, wg, runningWorkers, goroutines, nRuns, nWaits, mockVars >>

\* Mutant: Restart stops and drains, but its deferred Run is missing.
RestartDrainedNoRun ==
    \E r \in BagToSet(calls) :
        /\ r.op = "RestartWait"
        /\ wgWaitReturns(wg)
        /\ calls' = calls (-) SetToBag({r})
        /\ UNCHANGED << logVars, ctorVars, actorVars, supervisorVars, goroutines, callVars, mockVars >>

\* Mutant: Restart does not wait for the drain before its deferred Run.
RestartDrainedEarly ==
    \E r \in BagToSet(calls) :
        /\ r.op = "RestartWait"
        /\ ctxCancelled' = RestartScope(ctxCancelled)
        /\ calls' = Replace(calls, r, [op |-> "RestartRun", k |-> 1])
        /\ UNCHANGED << logVars, ctorVars, actorVars, wg, runningWorkers, goroutines, callVars, mockVars >>

\* s.wg.Wait() of Restart returns; the deferred s.Run() begins.
RestartDrained ==
    \E r \in BagToSet(calls) :
        /\ r.op = "RestartWait"
        /\ wgWaitReturns(wg)
        /\ ctxCancelled' = RestartScope(ctxCancelled)
        /\ calls' = Replace(calls, r, [op |-> "RestartRun", k |-> 1])
        /\ UNCHANGED << logVars, ctorVars, actorVars, wg, runningWorkers, goroutines, callVars, mockVars >>

\* The next wg.Go of the deferred Run of Restart.
RestartRunGo ==
    \E r \in BagToSet(calls) :
        /\ r.op = "RestartRun"
        /\ RunLaunch(r)
        /\ UNCHANGED << logVars, ctorVars, actorVars, ctxCancelled, runningWorkers, callVars, mockVars >>

\* ------------------------------------------------------------ Wait
\* Wait(): the caller blocks in s.wg.Wait() until the counter is zero.
Wait ==
    /\ nWaits < MaxWaits
    /\ nWaits' = nWaits + 1
    /\ calls' = calls (+) SetToBag({[op |-> "Wait", k |-> 0]})
    /\ UNCHANGED << logVars, ctorVars, actorVars, supervisorVars, goroutines, nRuns, nRestarts, mockVars >>

WaitReturn ==
    \E r \in BagToSet(calls) :
        /\ r.op = "Wait"
        /\ wgWaitReturns(wg)
        /\ calls' = calls (-) SetToBag({r})
        /\ UNCHANGED << logVars, ctorVars, actorVars, supervisorVars, goroutines, callVars, mockVars >>

\* ------------------------------------------------------------ an instance
SetPc(g, pc) == goroutines' = Replace(goroutines, g, [g EXCEPT !.pc = pc])

\* The goroutine starts: s.incWorkerCount(), with decWorkerCount deferred.
InstanceStart(g) ==
    /\ g.pc = "start"
    /\ runningWorkers' = incWorkerCount(runningWorkers)
    /\ SetPc(g, "loop")
    /\ UNCHANGED << logVars, ctorVars, actorVars, ctxCancelled, wg, calls, callVars, mockVars >>

\* worker.Func(s.ctx) is called: the mock counts the call.  The mock's fields are
\* plain ints: with one live instance per mock (Count 1, generations one after
\* the other) the increments are ordered; the claims about nCalls and nPanics are
\* stated for that case.
MockBegin(g) ==
    /\ g.pc = "loop"
    /\ nCalls' = [nCalls EXCEPT ![g.worker] = @ + 1]
    /\ SetPc(g, "call")
    /\ UNCHANGED << logVars, ctorVars, actorVars, supervisorVars, calls, callVars, shouldPanic, nPanics >>

\* The mock's select takes <-ctx.Done(): the call returns.
MockCtxDone(g) ==
    /\ g.pc = "call"
    /\ ctxCancelled
    /\ SetPc(g, "returned")
    /\ UNCHANGED << logVars, ctorVars, actorVars, supervisorVars, calls, callVars, shouldPanic, nCalls, nPanics >>

\* Mutant: the mock panics without counting the panic.
MockPanicUncounted(g) ==
    /\ g.pc = "call"
    /\ shouldPanic[g.worker]
    /\ nCalls[g.worker] <= MaxPanics
    /\ SetPc(g, "returned")
    /\ UNCHANGED << logVars, ctorVars, actorVars, supervisorVars, calls, callVars, mockVars >>

\* Mutant: the panic of one instance also ends the call of another instance.
MockPanicSpreads(g) ==
    /\ g.pc = "call"
    /\ shouldPanic[g.worker]
    /\ nPanics[g.worker] < MaxPanics
    /\ nPanics' = [nPanics EXCEPT ![g.worker] = @ + 1]
    /\ LET rest == goroutines (-) SetToBag({g})
           others == {h \in BagToSet(rest) : h.pc = "call"}
       IN  IF others = {} THEN SetPc(g, "returned")
           ELSE \E h \in others :
                    goroutines' = Replace(Replace(goroutines, g, [g EXCEPT !.pc = "returned"]),
                                          h, [h EXCEPT !.pc = "returned"])
    /\ UNCHANGED << logVars, ctorVars, actorVars, supervisorVars, calls, callVars, shouldPanic, nCalls >>

\* The mock's select takes the timer and shouldPanic is set: nPanics++, panic,
\* recovered by the deferred function, and the call returns.
MockPanic(g) ==
    /\ g.pc = "call"
    /\ shouldPanic[g.worker]
    /\ nPanics[g.worker] < MaxPanics
    /\ nPanics' = [nPanics EXCEPT ![g.worker] = @ + 1]
    /\ SetPc(g, "returned")
    /\ UNCHANGED << logVars, ctorVars, actorVars, supervisorVars, calls, callVars, shouldPanic, nCalls >>

\* Mutant: the loop breaks after the first return, whatever the scope says.
loopBreaksAlways(cancelled) == TRUE

\* Mutant: the loop never breaks.
loopBreaksNever(cancelled) == FALSE

\* if s.ctx.Err() != nil { break }
loopBreaks(cancelled) == cancelled

\* After the call returned and the scope is live: call again.
InstanceAgain(g) ==
    /\ g.pc = "returned"
    /\ ~loopBreaks(ctxCancelled)
    /\ SetPc(g, "loop")
    /\ UNCHANGED << logVars, ctorVars, actorVars, supervisorVars, calls, callVars, mockVars >>

\* After the call returned and the scope is cancelled: break, and the deferred
\* s.decWorkerCount() runs as the goroutine's function returns.  (Cancellation is
\* permanent, so no other thread can tell an instance that has read it from one
\* that is about to: the read and the decrement are one step.)
InstanceExit(g) ==
    /\ g.pc = "returned"
    /\ loopBreaks(ctxCancelled)
    /\ runningWorkers' = decWorkerCount(runningWorkers)
    /\ SetPc(g, "finished")
    /\ UNCHANGED << logVars, ctorVars, actorVars, ctxCancelled, wg, calls, callVars, mockVars >>

\* wg.Go's wrapper calls Done after the function has returned.
InstanceDone(g) ==
    /\ g.pc = "finished"
    /\ wg' = wgDone(wg)
    /\ SetPc(g, "done")
    /\ UNCHANGED << logVars, ctorVars, actorVars, ctxCancelled, runningWorkers, calls, callVars, mockVars >>

Instance(g) ==
    \/ InstanceStart(g)
    \/ MockBegin(g)
    \/ MockCtxDone(g)
    \/ MockPanic(g)
    \/ InstanceAgain(g)
    \/ InstanceExit(g)
    \/ InstanceDone(g)

\* ------------------------------------------------------------ specification
Next ==
    \/ Run
    \/ RunGo
    \/ Stop
    \/ Restart
    \/ RestartDrained
    \/ RestartRunGo
    \/ Wait
    \/ WaitReturn
    \/ \E g \in BagToSet(goroutines) : Instance(g)

Spec == Init /\ [][Next]_vars

\* The Go scheduler runs every runnable goroutine: an instance that can take a step
\* takes one, a Run in progress launches its next instance, and a Wait whose
\* WaitGroup stays at zero returns.  Nothing obliges the caller to call the API.
Fairness ==
    /\ WF_vars(\E g \in BagToSet(goroutines) : Instance(g))
    /\ WF_vars(RunGo)
    /\ WF_vars(RestartDrained)
    /\ WF_vars(RestartRunGo)
    /\ WF_vars(WaitReturn)

\* The caller of the tests and examples: Run and Restart are issued by one thread,
\* one after the other, and Run only on a Supervisor none of whose instances is
\* live (the first Run, or a Run after the instances have gone).  Stop and Wait
\* come from any thread at any time.
CallerFree == CallsIn({"Run", "RestartWait", "RestartRun"}) = 0

RunIdle == CallerFree /\ wg = 0 /\ Run

RestartSerial == CallerFree /\ Restart

SerialNext ==
    \/ RunIdle
    \/ RunGo
    \/ Stop
    \/ RestartSerial
    \/ RestartDrained
    \/ RestartRunGo
    \/ Wait
    \/ WaitReturn
    \/ \E g \in BagToSet(goroutines) : Instance(g)

SerialSpec == Init /\ [][SerialNext]_vars /\ Fairness

\* A Supervisor whose caller never calls Stop or Restart and may cancel the parent
\* scope: Run as the serial caller issues it, Wait from any thread.
ParentNext ==
    \/ RunIdle
    \/ RunGo
    \/ ParentCancel
    \/ Wait
    \/ WaitReturn
    \/ \E g \in BagToSet(goroutines) : Instance(g)

ParentSpec == Init /\ [][ParentNext]_vars /\ Fairness

\* A Supervisor on which nothing has been called.
SupervisorIdle ==
    /\ ctxCancelled = FALSE
    /\ wg = 0
    /\ runningWorkers = 0
    /\ goroutines = EmptyBag
    /\ calls = EmptyBag
    /\ nRuns = 0
    /\ nRestarts = 0
    /\ nWaits = 0
    /\ shouldPanic = [w \in Workers |-> FALSE]
    /\ nCalls = [w \in Workers |-> 0]
    /\ nPanics = [w \in Workers |-> 0]

\* The constructor on its own: any parent scope, any list of options.
CtorInit ==
    /\ parentDone \in BOOLEAN
    /\ opts \in OptionLists
    /\ optIdx = 1
    /\ newWorkers = << >>
    /\ newResult = Pending
    /\ SupervisorIdle
    /\ ActorIdle
    /\ LogIdle

CtorNext ==
    \/ NewApplyOption
    \/ NewOptionFails
    \/ NewReturn

CtorSpec == CtorInit /\ [][CtorNext]_vars

\* One actor run by one loop: go worker(ctx, done) as in the tests, relaunched as
\* by a Supervisor instance; a sender fills the mailbox and the scope may be
\* cancelled at any time.
ActorInit ==
    /\ actor \in Actors
    /\ toSend \in Scripts
    /\ sent = << >>
    /\ mailbox = << >>
    /\ mailboxClosed = FALSE
    /\ ctxDone = FALSE
    /\ actorPc = "idle"
    /\ nActorCalls = 0
    /\ initCalled = 0
    /\ terminateCall = 0
    /\ handleCalls = << >>
    /\ thisCall = NewCall
    /\ SupervisorIdle
    /\ CtorDone
    /\ LogIdle

ActorNext ==
    \/ ActorSend
    \/ ActorCancel
    \/ ActorCall
    \/ ActorInitialise
    \/ ActorCtxDone
    \/ ActorMailboxClosed
    \/ ActorReceive
    \/ ActorTerminate
    \/ ActorReturn
    \/ ActorLoopCheck

ActorSpec == ActorInit /\ [][ActorNext]_vars

\* The steps of the goroutine that runs the actor: the restart loop and the call.
ActorStep ==
    \/ ActorCall
    \/ ActorInitialise
    \/ ActorCtxDone
    \/ ActorMailboxClosed
    \/ ActorReceive
    \/ ActorTerminate
    \/ ActorReturn
    \/ ActorLoopCheck

\* The scheduler runs the actor's goroutine whenever it can take a step; nothing
\* obliges the sender to send or the caller to cancel.
ActorFairSpec == ActorSpec /\ WF_vars(ActorStep)

\* The logging functions on their own: the logger of either package is set or
\* reset at any time and either function is called with any message.
LogInit ==
    /\ LogIdle
    /\ SupervisorIdle
    /\ CtorDone
    /\ ActorIdle

LogNext ==
    \/ SetLogger
    \/ LogCall
    \/ logCall

LogSpec == LogInit /\ [][LogNext]_vars

\* The actors example: Run has launched Count instances on ActorWorker(a); a
\* sender fills the mailbox and the scope may be cancelled at any time.
PoolInit ==
    /\ actor = printerActor
    /\ toSend \in Scripts
    /\ sent = << >>
    /\ mailbox = << >>
    /\ mailboxClosed = FALSE
    /\ ctxDone = FALSE
    /\ actorPc = "idle"
    /\ nActorCalls = 0
    /\ initCalled = 0
    /\ terminateCall = 0
    /\ handleCalls = << >>
    /\ thisCall = NewCall
    /\ ctxCancelled = FALSE
    /\ wg = 0
    /\ runningWorkers = 0
    /\ goroutines = [g \in {PoolInstance} |-> PoolCount]
    /\ calls = EmptyBag
    /\ nRuns = 0
    /\ nRestarts = 0
    /\ nWaits = 0
    /\ shouldPanic = [w \in Workers |-> FALSE]
    /\ nCalls = [w \in Workers |-> 0]
    /\ nPanics = [w \in Workers |-> 0]
    /\ CtorDone
    /\ LogIdle

PoolNext ==
    \/ ActorSend
    \/ ActorCancel
    \/ \E g \in BagToSet(goroutines) : PoolStep(g)

PoolSpec == PoolInit /\ [][PoolNext]_vars

\* ------------------------------------------------------------ shorthands
InLoop == {"loop", "call", "returned"}
Launched == BagCardinality(goroutines)
Waiting == CallsIn({"Wait"}) > 0
Launching == CallsIn({"Run", "RestartRun"}) > 0
Drained == wg = 0 /\ CountAt({"done"}) = Launched
\* The instances that have left their restart loop.
Gone == {"finished", "done"}
\* No Run or Restart call is in progress and every launched instance is done.
Quiescent == CallerFree /\ CountAt({"done"}) = Launched

\* The instances the Run and Restart calls in progress have launched so far.
PartlyLaunched ==
    LET at == {r \in BagToSet(calls) : r.op \in {"Run", "RestartRun"}}
        RECURSIVE Sum(_)
        Sum(S) == IF S = {} THEN 0
                  ELSE LET r == CHOOSE x \in S : TRUE
                       IN  CopiesIn(r, calls) * (r.k - 1) + Sum(S \ {r})
    IN  Sum(at)

\* The Run executions (direct or deferred by Restart) that have returned.
RunsReturned == nRuns + nRestarts - CallsIn({"Run", "RestartWait", "RestartRun"})

\* The TaskSpecs of the options of a list, in the order given.
RECURSIVE AllSpecs(_)
AllSpecs(os) ==
    IF os = << >> THEN << >> ELSE Head(os).specs \o AllSpecs(Tail(os))

\* One of the options handed to the constructor returns an error.
SomeOptionFails == \E i \in 1..Len(opts) : opts[i].kind = "failing"

\* The envelopes the loop has consumed: those sent and no longer in the mailbox.
Consumed == SubSeq(sent, 1, Len(sent) - Len(mailbox))

\* The payloads of the Data envelopes of a sequence, in order.
RECURSIVE DataPayloads(_)
DataPayloads(es) ==
    IF es = << >> THEN << >>
    ELSE IF Head(es).Control = "MessageData"
         THEN << Head(es).Payload >> \o DataPayloads(Tail(es))
         ELSE DataPayloads(Tail(es))

\* This step the loop reads an envelope from the mailbox.
ReadsEnvelope == thisCall'.reads = thisCall.reads + 1

TypeOK ==
    /\ ctxCancelled \in BOOLEAN
    /\ wg \in Int
    /\ runningWorkers \in Int
    /\ IsABag(goroutines)
    /\ IsABag(calls)
    /\ BagCardinality(goroutines) <= TotalCount * MaxRuns
    /\ nRuns + nRestarts <= MaxRuns

\* ------------------------------------------------------------ claims

\* C1: with task functions that return once the scope is cancelled (the mock does),
\* after Stop() every launched instance leaves its restart loop for good, the
\* WaitGroup settles at zero, and a pending Wait() returns.
C1_StopThenWaitTerminates ==
    /\ <>[](ctxCancelled => (Drained /\ ~Launching))
    /\ ((ctxCancelled /\ Waiting) ~> ~Waiting)

\* A Wait() is pending after Run() and Stop(), and every instance has gone.
C1_Witness ==
    /\ ctxCancelled
    /\ nRuns = 1
    /\ nRestarts = 0
    /\ Waiting
    /\ Launched = TotalCount
    /\ Drained

\* C2: a call that returns while the scope is live sends its instance back to the
\* top of the loop, for another call, whatever ended the call; no instance leaves
\* its restart loop while the scope is live.
C2_RelaunchWhileLive ==
    [][\A w \in Workers :
          /\ (~ctxCancelled /\ CountOf(w, {"returned"})' < CountOf(w, {"returned"}))
                => /\ CountOf(w, {"loop"})' = CountOf(w, {"loop"}) + 1
                   /\ CountOf(w, Gone)' = CountOf(w, Gone)
          /\ (CountOf(w, Gone)' > CountOf(w, Gone)) => ctxCancelled]_vars

\* A call has ended by a recovered panic under a live scope and the task function
\* has been called again.
C2_Witness ==
    /\ ~ctxCancelled
    /\ \E w \in Workers : nPanics[w] >= 1 /\ nCalls[w] >= 2 /\ CountOf(w, {"call"}) = 1

\* C3: when the deferred Run of Restart begins, the Supervisor's scope is a live
\* one: not the scope the Stop step of this Restart has cancelled.
C3_RestartRunsUnderLiveScope ==
    [][CallsIn({"RestartRun"})' > CallsIn({"RestartRun"}) => ~ctxCancelled']_vars

\* C4: with a task function that returns only on cancellation, every launched
\* instance invokes it exactly once, so once the calls made have settled it has been
\* invoked Count times per Run() and Count more times per Restart(): Run, Restart
\* with Count 1 gives 2.
C4_RestartOneMoreInvocation ==
    \A w \in Workers :
        ~shouldPanic[w] =>
            /\ nCalls[w] = CountOf(w, {"call", "returned"} \cup Gone)
            /\ Quiescent => nCalls[w] = workers[w].Count * (nRuns + nRestarts)

\* Run, then Restart, all settled: two invocations of a Count-1 task function.
C4_Witness ==
    /\ nRuns = 1
    /\ nRestarts = 1
    /\ Quiescent
    /\ Launched = 2 * TotalCount
    /\ \E w \in Workers : ~shouldPanic[w] /\ workers[w].Count = 1 /\ nCalls[w] = 2

C6_CounterWithinTotal == CurrentWorkerCount >= 0 /\ CurrentWorkerCount <= TotalCount

\* C7: after Run() the counter reaches the sum of the counts (unless the scope is
\* cancelled first), and from then on keeps that value for as long as the scope is
\* not cancelled, also across calls that fail and are relaunched.
C7_ReachesTotalAndStays ==
    /\ (nRuns >= 1) ~> (CurrentWorkerCount = TotalCount \/ ctxCancelled)
    /\ [][(CurrentWorkerCount = TotalCount /\ ~ctxCancelled')
            => CurrentWorkerCount' = TotalCount]_vars

\* All instances are inside a call, the counter is the sum of the counts.
C7_Witness ==
    /\ ~ctxCancelled
    /\ nRuns = 1
    /\ CurrentWorkerCount = TotalCount
    /\ CountAt({"call"}) = TotalCount

\* C8: for a TaskSpec run by a single instance, invocations minus recovered panics
\* is always 0 or 1: it is 1 while a call is in progress, and 0 between calls under
\* a live scope.
C8_CallsArePanicsPlusOne ==
    \A w \in Workers :
        CountOf(w, {"start", "loop", "call", "returned"} \cup Gone) <= 1 =>
            /\ nCalls[w] - nPanics[w] \in {0, 1}
            /\ CountOf(w, {"call"}) = 1 => nCalls[w] = nPanics[w] + 1
            /\ (~ctxCancelled /\ CountOf(w, {"call"}) = 0) => nCalls[w] = nPanics[w]

\* A single instance is in its second call, after one recovered panic.
C8_Witness ==
    \E w \in Workers :
        /\ CountOf(w, {"call"}) = 1
        /\ CountOf(w, {"start", "loop", "call", "returned"} \cup Gone) = 1
        /\ nPanics[w] = 1
        /\ nCalls[w] = 2

\* C9: whenever Wait() would return, the counter is 0 and no instance is inside a
\* task-function call (the deferred decrement runs before the instance is Done).
C9_ZeroWhenWaitReturns ==
    wgWaitReturns(wg) => (CurrentWorkerCount = 0 /\ CountAt({"call"}) = 0)

\* Stop() has been called after Run(), every instance has exited, and a Wait()
\* made meanwhile has returned.
C9_Witness ==
    /\ ctxCancelled
    /\ nRuns = 1
    /\ nWaits = 1
    /\ ~Waiting
    /\ Launched = TotalCount
    /\ wgWaitReturns(wg)

\* C10: the WaitGroup counts the launched instances that are not Done, so it is zero
\* exactly when every launched instance has left its loop and finished; instances
\* leave only under a cancelled scope; every instance a Run has launched is
\* registered at once, so all of them are when Run returns; and whenever a Wait()
\* can return, no launched instance is left in its loop.
C10_TrackerZeroIffAllGone ==
    /\ wg = Launched - CountAt({"done"})
    /\ wgWaitReturns(wg) <=> CountAt({"done"}) = Launched
    /\ CountAt(Gone) > 0 => ctxCancelled
    /\ Launched = TotalCount * RunsReturned + PartlyLaunched
    /\ wgWaitReturns(wg) => CountAt({"start"} \cup InLoop) = 0

\* Two Run generations have been launched and have gone; the tracker is zero.
C10_Witness ==
    /\ ctxCancelled
    /\ wg = 0
    /\ Launched = 2 * TotalCount
    /\ CountAt({"done"}) = Launched
    /\ ~Launching

\* C11 as stated: a Wait() returns only under a cancelled scope, whenever it was
\* called relative to Run().
C11_WaitBlocksWithoutStop ==
    [][CallsIn({"Wait"})' < CallsIn({"Wait"}) => ctxCancelled]_vars

\* C11 amended: a Wait() returns only if the scope has been cancelled or no
\* instance has been launched yet; once Run() has launched an instance, Wait()
\* blocks for as long as the scope is live.
C11_WaitBlocksWhileInstancesLive ==
    [][CallsIn({"Wait"})' < CallsIn({"Wait"}) => (ctxCancelled \/ Launched = 0)]_vars

\* A Wait() made after Run() is blocked: instances are launched, the scope is live.
C11_Witness ==
    /\ ~ctxCancelled
    /\ nRuns = 1
    /\ nRestarts = 0
    /\ Waiting
    /\ Launched = TotalCount
    /\ CountAt({"call"}) = TotalCount

\* C12: the scope never goes from cancelled back to live, and a Stop() on a
\* cancelled scope changes nothing at all.
C12_StopIdempotent ==
    [][/\ ctxCancelled => ctxCancelled'
       /\ (ctxCancelled /\ Stop) => UNCHANGED vars]_vars

\* Stop() has cancelled the scope (no Restart did) while instances are in a call:
\* the state a second Stop() meets.
C12_Witness ==
    /\ ctxCancelled
    /\ nRestarts = 0
    /\ nRuns = 1
    /\ CountAt({"call"}) >= 1

\* C13: a step that moves an instance moves that instance only: every other
\* instance, of the same TaskSpec or another, keeps its position; a launch adds
\* one instance and moves none; and a call that ends or is relaunched leaves the
\* scope, the WaitGroup and the counter as they were.
C13_InstancesIndependent ==
    [][/\ (goroutines' # goroutines /\ Launched' = Launched) =>
            \E g \in BagToSet(goroutines) :
                \E pc \in {"loop", "call", "returned", "finished", "done"} :
                    /\ goroutines' = Replace(goroutines, g, [g EXCEPT !.pc = pc])
                    /\ (g.pc \in {"call", "returned"} /\ pc \in {"returned", "loop"})
                          => UNCHANGED supervisorVars
       /\ (Launched' # Launched) =>
            \E w \in Workers :
                goroutines' = goroutines (+) SetToBag({[worker |-> w, pc |-> "start"]})]_vars

\* One instance has been relaunched after a recovered panic while the instance of
\* the other TaskSpec is still in its first call.
C13_Witness ==
    /\ ~ctxCancelled
    /\ nRuns = 1
    /\ nRestarts = 0
    /\ \E w, v \in Workers :
          /\ w # v
          /\ nPanics[w] = 1 /\ nCalls[w] = 2 /\ CountOf(w, {"call"}) = 1
          /\ nCalls[v] = 1 /\ nPanics[v] = 0 /\ CountOf(v, {"call"}) = 1

\* C14 as stated: the constructor returns an error and no Supervisor exactly when
\* an option fails; otherwise a Supervisor whose scope is live and whose TaskSpecs
\* are those of all WithWorkers options in the order given.
C14_ConstructorLiveScope ==
    newResult.state = "returned" =>
        /\ newResult.err <=> SomeOptionFails
        /\ newResult.err <=> ~newResult.supervisor
        /\ newResult.supervisor =>
              /\ newResult.workers = AllSpecs(opts)
              /\ ~newResult.cancelled

\* C14 amended: as stated, except that the scope of the Supervisor is derived from
\* the parent: live when the parent is live, cancelled from the start when the
\* parent is cancelled already.
C14_ConstructorDerivedScope ==
    newResult.state = "returned" =>
        /\ newResult.err <=> SomeOptionFails
        /\ newResult.err <=> ~newResult.supervisor
        /\ newResult.supervisor =>
              /\ newResult.workers = AllSpecs(opts)
              /\ newResult.cancelled <=> parentDone

\* The constructor has returned a Supervisor built from two WithWorkers options
\* with TaskSpecs, under a live parent.
C14_Witness ==
    /\ newResult.state = "returned"
    /\ newResult.supervisor
    /\ ~parentDone
    /\ Len(opts) = 2
    /\ opts[1].specs = << workers[2], workers[1] >>
    /\ opts[2].specs = << workers[1] >>
    /\ newResult.workers = << workers[2], workers[1], workers[1] >>

\* C15: when the loop consumes a Data envelope with payload P, Handle is invoked
\* exactly once, with P, in that step; the envelope has no control effect: the
\* scope and the mailbox's open state are untouched, no hook runs, and the call
\* goes on with its loop (a Handle that panics ends the call by its own failure).
C15_DataHandledOnce ==
    [][(ReadsEnvelope /\ Head(mailbox).Control = "MessageData") =>
          /\ handleCalls' = Append(handleCalls, Head(mailbox).Payload)
          /\ thisCall'.handles = thisCall.handles + 1
          /\ actorPc' = IF actor.panicOnHandle THEN "panicked" ELSE "loop"
          /\ thisCall'.terms = thisCall.terms
          /\ UNCHANGED << logVars, ctxDone, mailboxClosed, nActorCalls, initCalled, terminateCall >>]_vars

\* The loop has consumed two Data envelopes, handed both to Handle, and loops on.
C15_Witness ==
    /\ actorPc = "loop"
    /\ nActorCalls = 1
    /\ thisCall.reads = 2
    /\ handleCalls = << "a", "b" >>
    /\ ~ctxDone

\* C16: when the loop consumes an envelope whose control is Stop or Restart, the
\* loop ends and the deferred exit begins; Handle is not invoked and the payload
\* goes nowhere; the step is the same for Stop and for Restart: nothing else
\* changes.
C16_ControlEndsCall ==
    [][(ReadsEnvelope /\ Head(mailbox).Control \in {"MessageStop", "MessageRestart"}) =>
          /\ actorPc' = "deferred"
          /\ handleCalls' = handleCalls
          /\ thisCall' = [thisCall EXCEPT !.reads = @ + 1]
          /\ mailbox' = Tail(mailbox)
          /\ UNCHANGED << logVars, actor, toSend, sent, mailboxClosed, ctxDone, nActorCalls,
                          initCalled, terminateCall >>]_vars

\* A call has been ended by a Restart envelope that carried a payload: the
\* envelope is consumed, Handle was not invoked.
C16_Witness ==
    /\ actorPc = "deferred"
    /\ sent = << [Control |-> "MessageRestart", Payload |-> "a"] >>
    /\ mailbox = << >>
    /\ thisCall.reads = 1
    /\ handleCalls = << >>
    /\ ~ctxDone

\* C17: the Handle invocations are, in order, the payloads of the Data envelopes
\* consumed, and the envelopes are consumed in the order sent; Data a, Data b, Stop
\* sent to one call that is not cancelled and whose Handle returns gives Handle
\* a, then b, and one Terminate once the call has left its loop.
C17_FifoDelivery ==
    /\ handleCalls = DataPayloads(Consumed)
    /\ sent = Consumed \o mailbox
    /\ ( /\ sent = << [Control |-> "MessageData", Payload |-> "a"],
                      [Control |-> "MessageData", Payload |-> "b"],
                      [Control |-> "MessageStop", Payload |-> "nil"] >>
         /\ nActorCalls = 1
         /\ actorPc \in {"closing", "returned"}
         /\ ~ctxDone
         /\ ~actor.panicOnHandle
         /\ actor.init # "error"
         /\ actor.term # "none" )
        => (handleCalls = << "a", "b" >> /\ terminateCall = 1)

\* Data a, Data b, Stop were sent; the call has returned after two Handle
\* invocations and one Terminate.
C17_Witness ==
    /\ sent = << [Control |-> "MessageData", Payload |-> "a"],
                 [Control |-> "MessageData", Payload |-> "b"],
                 [Control |-> "MessageStop", Payload |-> "nil"] >>
    /\ nActorCalls = 1
    /\ actorPc = "returned"
    /\ ~ctxDone
    /\ handled = << "a", "b" >>
    /\ terminateCall = 1

\* C18: for an actor that is a Terminator, a call that has entered the loop has
\* not run Terminate while it is in the loop or about to run the deferred exit,
\* and has run it exactly once when it is about to return and when it has
\* returned, whatever ended the loop.
C18_TerminateOncePerCall ==
    (actor.term # "none" /\ thisCall.entered) =>
        /\ actorPc \in {"loop", "deferred", "panicked"} => thisCall.terms = 0
        /\ actorPc \in {"closing", "returned", "ended", "idle"} => thisCall.terms = 1

\* A call that entered the loop and was ended by the cancellation of the scope,
\* without reading an envelope, has returned after one Terminate.
C18_Witness ==
    /\ actor.term # "none"
    /\ thisCall.entered
    /\ ctxDone
    /\ thisCall.reads = 0
    /\ ~mailboxClosed \/ actor.term = "closes"
    /\ actorPc = "returned"
    /\ thisCall.terms = 1

\* C19: a call whose Init returned an error returns after one log line and without
\* a Terminate invocation.
C19_NoTerminateAfterInitFailure ==
    (actor.init = "error" /\ actorPc \in {"closing", "returned"}) =>
        /\ thisCall.terms = 0
        /\ thisCall.logs = << "actor init failed" >>

\* C20: for an actor that is an Initialiser, a call runs Init first and once: no
\* read and no Handle before it, exactly one Init once it is past it; a call
\* whose Init failed reads nothing and never invokes Handle; and Init has run once
\* per call.
C20_InitOnceBeforeReads ==
    actor.init # "none" =>
        /\ actorPc = "init" =>
              (thisCall.inits = 0 /\ thisCall.reads = 0 /\ thisCall.handles = 0)
        /\ actorPc \notin {"idle", "init"} => thisCall.inits = 1
        /\ (thisCall.reads > 0 \/ thisCall.handles > 0) =>
              (actor.init = "ok" /\ thisCall.entered)
        /\ actor.init = "error" => (~thisCall.entered /\ handleCalls = << >>)
        /\ initCalled = nActorCalls - (IF actorPc = "init" THEN 1 ELSE 0)

\* The actor has been relaunched after a Restart envelope, has run Init again and
\* has handed a Data envelope to Handle in its second call.
C20_Witness ==
    /\ actor.init = "ok"
    /\ nActorCalls = 2
    /\ initCalled = 2
    /\ thisCall.inits = 1
    /\ thisCall.handles = 1
    /\ Len(sent) >= 2
    /\ sent[1].Control = "MessageRestart"

\* C21: in a call whose Handle panicked, that was the call's only Handle
\* invocation and the loop is over: no further envelope is read; the deferred
\* function logs the recovered panic first, invokes Terminate once if the actor is
\* a Terminator, and closes done: the call returns like any other.
C21_HandlerPanicRecovered ==
    (actor.panicOnHandle /\ thisCall.handles > 0) =>
        /\ thisCall.handles = 1
        /\ actorPc \in {"panicked", "closing", "returned", "ended", "idle"}
        /\ actorPc # "panicked" =>
              /\ Head(thisCall.logs) = "recovered panic in actor"
              /\ thisCall.terms = (IF actor.term # "none" THEN 1 ELSE 0)
        /\ actorPc \in {"returned", "ended", "idle"} => thisCall.closed = 1

\* Handle has panicked on the first envelope; the call has logged the panic, run
\* Terminate and returned.
C21_Witness ==
    /\ actor.panicOnHandle
    /\ actor.term # "none"
    /\ nActorCalls = 1
    /\ actorPc = "returned"
    /\ thisCall.handles = 1
    /\ thisCall.terms = 1
    /\ thisCall.logs = << "recovered panic in actor" >>

\* C22: a Terminate that panics (testActor's, closing a mailbox that is closed
\* already) is recovered and logged last, and the deferred exit always goes on to
\* close done and return, also when it began with a recovered Handle panic.
C22_TerminatePanicContained ==
    /\ []((actor.term = "closes" /\ terminateCall >= 2 /\ thisCall.terms = 1) =>
            /\ thisCall.logs # << >>
            /\ thisCall.logs[Len(thisCall.logs)] = "recovered panic in actor termination"
            /\ actorPc \in {"closing", "returned", "ended", "idle"})
    /\ [][((actorPc \in {"deferred", "panicked"} /\ actorPc' # actorPc)
               => actorPc' = "closing")
           /\ ((actorPc = "closing" /\ actorPc' # actorPc)
               => (actorPc' = "returned" /\ thisCall'.closed = 1))]_vars

\* The second call's Handle panicked and then its Terminate panicked; both are
\* logged and the call has returned.
C22_Witness ==
    /\ actor.term = "closes"
    /\ actor.panicOnHandle
    /\ nActorCalls = 2
    /\ actorPc = "returned"
    /\ thisCall.logs = << "recovered panic in actor",
                          "recovered panic in actor termination" >>

\* The last envelope consumed, once one has been.
LastConsumed == Consumed[Len(Consumed)]

\* The current call of the task function is in progress: done is not yet closed.
CallInProgress == actorPc \in {"init", "loop", "deferred", "panicked", "closing"}

\* C23: a supervised actor whose call consumed a Stop or a Restart envelope while
\* the scope is live is called again and its Init runs again, unless the scope is
\* cancelled meanwhile; the restart loop of the actor ends only once the scope is
\* cancelled.
C23_ControlEnvelopeRelaunches ==
    /\ [](actorPc = "ended" => ctxDone)
    /\ \A n \in 1..(MaxActorCalls - 1) :
          ( /\ nActorCalls = n
            /\ actorPc = "deferred"
            /\ ~ctxDone
            /\ thisCall.reads > 0
            /\ isControl(LastConsumed) )
          ~> ( \/ ctxDone
               \/ /\ nActorCalls = n + 1
                  /\ actorPc \notin {"idle", "init"}
                  /\ thisCall.inits = (IF hasInitialiser(actor) THEN 1 ELSE 0)
                  /\ (hasInitialiser(actor) => initCalled = n + 1) )

\* A Restart envelope ended the first call under a live scope; the actor was called
\* again and its Init ran a second time.
C23_Witness ==
    /\ actor.init = "ok"
    /\ ~ctxDone
    /\ Consumed = << [Control |-> "MessageRestart", Payload |-> "a"] >>
    /\ nActorCalls = 2
    /\ actorPc = "loop"
    /\ thisCall.inits = 1
    /\ initCalled = 2

\* C24: once the scope is cancelled after a Stop envelope ended a call, no Init has
\* been invoked by a later call and no Handle has been invoked after that
\* envelope was consumed.
C24_StopEnvelopeThenStopFinal ==
    ctxDone =>
        /\ (Len(Consumed) > 0 /\ LastConsumed.Control = "MessageStop" /\ thisCall.reads = 0)
              => thisCall.inits = 0
        /\ \A i \in 1..Len(Consumed) : \A j \in 1..Len(Consumed) :
              (i < j /\ Consumed[i].Control = "MessageStop")
                 => Consumed[j].Control # "MessageData"

\* C25: done of a call is not closed while the call is in progress and has been
\* closed exactly once when the call has returned, whatever ended it; it is closed
\* by the step that follows the deferred termination step, so after Terminate
\* has run when the actor is a Terminator.
C25_DoneClosedOnce ==
    /\ [](/\ CallInProgress => thisCall.closed = 0
          /\ (actorPc \in {"returned", "ended"} \/ (actorPc = "idle" /\ nActorCalls > 0))
                => /\ thisCall.closed = 1
                   /\ thisCall.terms = (IF hasTerminator(actor) THEN 1 ELSE 0))
    /\ [][(thisCall'.closed # thisCall.closed /\ nActorCalls' = nActorCalls)
             => (actorPc = "closing" /\ actorPc' = "returned"
                   /\ thisCall'.closed = thisCall.closed + 1)]_vars

\* A call whose Terminate panicked after its Handle panicked has returned with done
\* closed once.
C25_Witness ==
    /\ actor.term = "closes"
    /\ actor.panicOnHandle
    /\ nActorCalls = 2
    /\ actorPc = "returned"
    /\ thisCall.closed = 1
    /\ thisCall.handles = 1
    /\ thisCall.logs[Len(thisCall.logs)] = "recovered panic in actor termination"

C29_MailboxKeptAcrossRelaunch ==
    [][/\ (mailbox' # mailbox) =>
              \/ (actorPc = "loop" /\ ReadsEnvelope /\ mailbox' = Tail(mailbox) /\ sent' = sent)
              \/ (Len(sent') = Len(sent) + 1 /\ mailbox' = Append(mailbox, sent'[Len(sent')])
                    /\ actorPc' = actorPc)
       /\ (nActorCalls' # nActorCalls \/ (actorPc = "returned" /\ actorPc' # actorPc))
              => (mailbox' = mailbox /\ mailboxClosed' = mailboxClosed)
       /\ mailboxClosed => mailboxClosed']_vars

\* A Stop envelope ended the first call while Data a was in the mailbox or still to
\* be sent; the second call handled a.
C29_Witness ==
    /\ sent = << [Control |-> "MessageStop", Payload |-> "nil"],
                 [Control |-> "MessageData", Payload |-> "a"] >>
    /\ nActorCalls = 2
    /\ thisCall.handles = 1
    /\ handleCalls = << "a" >>

\* The task-function calls begun so far, over all mocks.
RECURSIVE CallsBegunFrom(_)
CallsBegunFrom(w) == IF w > Len(workers) THEN 0 ELSE nCalls[w] + CallsBegunFrom(w + 1)

CallsBegun == CallsBegunFrom(1)

\* The instances that have yet to begin a call before they next read the scope.
AboutToCall == CountAt({"start", "loop"})

\* C26: while the deferred Run of Restart() is launching, every instance that is
\* not done was launched by that Run, so every instance of the previous generation
\* is done before an instance of the new one exists; Restart's wait returns only
\* when the WaitGroup is at zero and every launched instance is done; and a
\* Restart() in progress returns.
C26_RestartDrainsFirst ==
    /\ [](CallsIn({"RestartRun"}) > 0 => Launched - CountAt({"done"}) <= PartlyLaunched)
    /\ [][CallsIn({"RestartWait"})' < CallsIn({"RestartWait"})
             => (wg = 0 /\ CountAt({"done"}) = Launched)]_vars
    /\ (CallsIn({"RestartWait", "RestartRun"}) > 0)
          ~> (CallsIn({"RestartWait", "RestartRun"}) = 0)

\* Run then Restart, both returned: the first generation is done and every
\* instance of the second is in a call.
C26_Witness ==
    /\ nRuns = 1
    /\ nRestarts = 1
    /\ CallerFree
    /\ Launched = 2 * TotalCount
    /\ CountAt({"done"}) = TotalCount
    /\ CountAt({"call"}) = TotalCount

\* C27: when the parent scope is cancelled and Stop() is never called, the scope of
\* the Supervisor is cancelled with it, every launched instance leaves its restart
\* loop for good, the WaitGroup settles at zero, and a pending Wait() returns.
C27_ParentCancelDrains ==
    /\ [](parentDone => ctxCancelled)
    /\ <>[](parentDone => (Drained /\ ~Launching))
    /\ ((parentDone /\ Waiting) ~> ~Waiting)

\* The parent was cancelled after Run(); every instance has gone and a Wait() has
\* returned.
C27_Witness ==
    /\ parentDone
    /\ nRuns = 1
    /\ nRestarts = 0
    /\ Launched = TotalCount
    /\ Drained
    /\ nWaits = 1
    /\ ~Waiting
    /\ \A w \in Workers : nCalls[w] >= 1

\* C30: once the scope is cancelled, a call begins only in an instance that was
\* just launched or was already on its way to a call, and no instance goes back
\* to the top of its loop: the calls begun, plus the instances about to call,
\* minus the instances launched, stays as it is; so every instance begins at most
\* one call after the cancellation, one launched after it begins exactly one, and
\* the number of calls stays put once no instance is about to call.
C30_OneCallAfterCancel ==
    [][ctxCancelled =>
          /\ CallsBegun' + AboutToCall' - Launched' = CallsBegun + AboutToCall - Launched
          /\ CallsBegun' - CallsBegun \in {0, 1}
          /\ CountAt({"returned"})' < CountAt({"returned"})
                => CountAt(Gone)' = CountAt(Gone) + 1]_vars

\* Run, Stop and a second Run have settled: every instance of the second Run was
\* launched under the cancelled scope and each mock has been called twice.
C30_Witness ==
    /\ ctxCancelled
    /\ nRuns = 2
    /\ nRestarts = 0
    /\ Quiescent
    /\ Launched = 2 * TotalCount
    /\ \A w \in Workers : ~shouldPanic[w] /\ nCalls[w] = 2 * workers[w].Count

\* The messages of the emissions that satisfy a test on whether a Logger was set.
RECURSIVE MsgsWhere(_, _)
MsgsWhere(es, set) ==
    IF es = << >> THEN << >>
    ELSE IF Head(es).set = set THEN << Head(es).msg >> \o MsgsWhere(Tail(es), set)
         ELSE MsgsWhere(Tail(es), set)

\* C31: once the scope is cancelled, a call in its loop starts no Handle
\* invocation.
C31_NoHandleAfterCancel ==
    [][(ctxDone /\ actorPc = "loop") => handleCalls' = handleCalls]_vars

\* C33: every emission has produced exactly one line: the Logger has been handed
\* the messages emitted while one was set, in order, and os.Stderr has received
\* the messages emitted while none was set, in order.
C33_OneLinePerEmission ==
    /\ sinkLines = MsgsWhere(emitted, TRUE)
    /\ stderrLines = MsgsWhere(emitted, FALSE)

\* A sequence as the bag of its elements.
RECURSIVE SeqToBag(_)
SeqToBag(q) == IF q = << >> THEN EmptyBag ELSE SetToBag({Head(q)}) (+) SeqToBag(Tail(q))

\* The control envelopes of a sequence, counted.
RECURSIVE ControlCount(_)
ControlCount(es) ==
    IF es = << >> THEN 0
    ELSE (IF isControl(Head(es)) THEN 1 ELSE 0) + ControlCount(Tail(es))

\* A field of the instances of the pool, summed over the instances.
RECURSIVE PoolSumOver(_, _)
PoolSumOver(S, field) ==
    IF S = {} THEN 0
    ELSE LET g == CHOOSE x \in S : TRUE
         IN  CopiesIn(g, goroutines) * g[field] + PoolSumOver(S \ {g}, field)

PoolReads == PoolSumOver(BagToSet(goroutines), "reads")
PoolStops == PoolSumOver(BagToSet(goroutines), "stops")

\* The payloads the instances have received and not yet handed to Handle.
RECURSIVE PoolHeldOver(_)
PoolHeldOver(S) ==
    IF S = {} THEN EmptyBag
    ELSE LET g == CHOOSE x \in S : TRUE
         IN  (IF g.pc = "handling" THEN [p \in {g.held} |-> CopiesIn(g, goroutines)]
              ELSE EmptyBag) (+) PoolHeldOver(S \ {g})

PoolHeld == PoolHeldOver(BagToSet(goroutines))

\* C32: with several instances on one mailbox, the receives of all the instances
\* together are as many as the envelopes gone from the mailbox; the Handle
\* invocations made, with the payloads received and about to be handled, are the
\* payloads of the Data envelopes consumed, each once; the calls a control
\* envelope ended are as many as the control envelopes consumed; and a receive
\* changes one instance only.
C32_EachEnvelopeOnce ==
    /\ [](/\ PoolReads = Len(Consumed)
          /\ SeqToBag(handleCalls) (+) PoolHeld = SeqToBag(DataPayloads(Consumed))
          /\ PoolStops = ControlCount(Consumed)
          /\ BagCardinality(goroutines) = PoolCount)
    /\ [][mailbox' # mailbox /\ sent' = sent
             => /\ mailbox' = Tail(mailbox)
                /\ PoolReads' = PoolReads + 1
                /\ PoolStops' = PoolStops + (IF isControl(Head(mailbox)) THEN 1 ELSE 0)]_vars

\* Data a, Stop and Data b were sent to two instances: a and b have been handled
\* once each, the Stop envelope ended the call of one instance, and the instance
\* that never received a control envelope received one of the Data envelopes.
C32_Witness ==
    /\ sent = << [Control |-> "MessageData", Payload |-> "a"],
                 [Control |-> "MessageStop", Payload |-> "nil"],
                 [Control |-> "MessageData", Payload |-> "b"] >>
    /\ mailbox = << >>
    /\ SeqToBag(handleCalls) = SeqToBag(<< "a", "b" >>)
    /\ PoolStops = 1
    /\ terminateCall = 1
    /\ \E g \in BagToSet(goroutines) : g.stops = 0 /\ g.reads >= 1
    /\ \E g \in BagToSet(goroutines) : g.stops = 1

====
